---------------------------- MODULE Spec2Model ----------------------------
(***************************************************************************)
(* Model of internal/services/webhooks/webhooks.go: the WebhooksController *)
(* that discovers webhook workers per tenant, starts one transport and one *)
(* monitor goroutine per worker identity, and releases them on shutdown.   *)
(*                                                                         *)
(* Goroutines are processes: process 0 is the discovery goroutine of       *)
(* Start(), process i >= 1 is the monitor goroutine of the i-th started    *)
(* worker instance, and the caller of the shutdown closure is a third kind *)
(* of process.  run() is executed by process 0 (from check) and by a       *)
(* monitor (restart), so its steps are parameterised by the process.       *)
(***************************************************************************)
EXTENDS Naturals, Sequences, FiniteSets, TLC

(***************************************************************************)
(* Bounds of the model.                                                    *)
(***************************************************************************)
MaxScans == 2
MaxInst == 2

Inst == 1..MaxInst
Procs == 0..MaxInst

(***************************************************************************)
(* The repository content the controller reads: two tenants and two        *)
(* webhook workers, either one worker per tenant or both workers under the *)
(* first tenant.  Each element of Listings maps the index of a tenant in   *)
(* TenantList to what ListWebhookWorkers returns for it.                   *)
(***************************************************************************)
TenantList == <<"t1", "t2">>
Workers == {"w1", "w2"}
Listings == { << <<"w1">>, <<"w2">> >>, << <<"w1", "w2">>, <<>> >> }

(***************************************************************************)
(* Strings are sequences of characters; Rank is the byte order of the      *)
(* characters used (',' = 0x2c sorts before the letters).                  *)
(***************************************************************************)
Rank(ch) == CASE ch = "," -> 0 [] ch = "a" -> 1 [] ch = "b" -> 2 [] ch = "c" -> 3

RECURSIVE StrLess(_, _)
StrLess(x, y) ==
    IF y = <<>> THEN FALSE
    ELSE IF x = <<>> THEN TRUE
    ELSE IF Rank(Head(x)) < Rank(Head(y)) THEN TRUE
    ELSE IF Rank(Head(x)) > Rank(Head(y)) THEN FALSE
    ELSE StrLess(Tail(x), Tail(y))

\* Insert string e into the sorted sequence s, after the elements not greater.
RECURSIVE InsertSorted(_, _)
InsertSorted(e, s) ==
    IF s = <<>> THEN <<e>>
    ELSE IF StrLess(e, Head(s)) THEN <<e>> \o s
    ELSE <<Head(s)>> \o InsertSorted(e, Tail(s))

\* A sort that leaves the slice as it is.
slicesSortNone(s) == s

\* slices.Sort on a []string: ascending lexicographic order.
RECURSIVE slicesSort(_)
slicesSort(s) ==
    IF s = <<>> THEN <<>>
    ELSE InsertSorted(Head(s), slicesSort(Tail(s)))

\* strings.Join(elems, sep).
RECURSIVE stringsJoin(_, _)
stringsJoin(elems, sep) ==
    IF elems = <<>> THEN <<>>
    ELSE IF Len(elems) = 1 THEN Head(elems)
    ELSE Head(elems) \o sep \o stringsJoin(Tail(elems), sep)

\* hash(s): sort, then join with a comma.
hash(s) == stringsJoin(slicesSort(s), <<",">>)

(***************************************************************************)
(* Health-check responses a worker endpoint may give.  Manifest 2 is a     *)
(* permutation of manifest 1; manifest 3 has one more action.              *)
(***************************************************************************)
Manifests ==
    << [Actions |-> << <<"a">>, <<"b">> >>,           Workflows |-> << <<"a">> >>],
       [Actions |-> << <<"b">>, <<"a">> >>,           Workflows |-> << <<"a">> >>],
       [Actions |-> << <<"a">>, <<"b">>, <<"c">> >>,  Workflows |-> << <<"a">> >>] >>
ManifestIds == 1..Len(Manifests)
NoManifest == 0

\* A release action: nil, the release function of transport j (w.Start's
\* cleanup), or the aggregate closure run() returns for instance j.
Nil == <<"nil", 0>>
Rel(j) == <<"rel", j>>
Agg(j) == <<"agg", j>>

VARIABLES
    listing,              \* the webhook workers the repository holds, per tenant
    started,              \* Start() has been called
    ctxDone,              \* Start's ctx has been cancelled
    registeredWorkerIds,  \* c.registeredWorkerIds (the keys of the map)
    c_cleanups,           \* c.cleanups
    pc,                   \* where process 0 and each monitor stand (see the actions)
    dT, dW,               \* check(): index of the tenant and worker in the loops
    scans,                \* number of ticker ticks consumed by the discovery loop
    checkRes,             \* what the last check() call returned
    h,                    \* run(): the health response held by the call of process p
    ret,                  \* the release action run() returned to the caller p
    ninst,                \* number of transports started so far
    iworker,              \* instance -> worker identity (ww.ID)
    released,             \* instance -> number of calls of its transport's release
    mctx,                 \* instance -> its monitor's ctx is cancelled
    timerFired,           \* instance -> the monitor's timer has delivered on timer.C
    healthCheckErrors,    \* instance -> the monitor's consecutive-failure counter
    wfsHashLast,          \* instance -> baseline fingerprint of the workflows
    actionsHashLast,      \* instance -> baseline fingerprint of the actions
    cleanups,             \* instance -> run()'s local cleanups slice
    rng,                  \* instance -> what is left of the monitor's range over cleanups
    sdpc,                 \* the shutdown closure: "idle", "loop", "inner", "done"
    sdSnap,               \* the slice the shutdown's range loop iterates
    sdRng,                \* what is left of it
    sdInner,              \* what is left of the range inside the aggregate closure
    sdErr,                \* the shutdown closure returned an error
    invoked,              \* aggregate closures the shutdown has invoked
    active,               \* worker -> persisted isActive flag (inactive at first)
    deactCalls,           \* instance -> UpdateWorker(isActive=false) calls issued
    activCalls,           \* instance -> UpdateWorker(isActive=true) was issued
    crash,                \* "none", or why the process died
    passed,               \* history: workers passed to run() by the current check()
    scanErrs,             \* history: workers whose run() returned an error in this check()
    listFailed,           \* history: tenants whose ListWebhookWorkers failed in this check()
    appended,             \* history: workers whose release action this check() recorded
    absentSeen,           \* history: worker -> run() calls that found the identity absent
    startFailed,          \* history: worker -> NewWorker/Start failed after the guard
    changedTo,            \* history: instance -> manifest of the probe that triggered restart
    prevErrs,             \* history: workers whose run() returned an error in the check() before
    hashIn,               \* hash(): a slice of names
    hashArg,              \* hash(): the arrangement of hashIn passed to the call
    hashOut               \* hash(): what the call returned

ctl == <<listing, started, ctxDone, registeredWorkerIds, c_cleanups>>
disc == <<dT, dW, scans, checkRes>>
insts == <<ninst, iworker, released, mctx, timerFired, healthCheckErrors,
           wfsHashLast, actionsHashLast, cleanups, rng>>
shut == <<sdpc, sdSnap, sdRng, sdInner, sdErr, invoked>>
repo == <<active, deactCalls, activCalls>>
hist == <<passed, scanErrs, listFailed, appended, absentSeen, startFailed, changedTo,
          prevErrs>>
pure == <<hashIn, hashArg, hashOut>>
vars == <<ctl, pc, disc, h, ret, insts, shut, repo, crash, hist, pure>>

\* New(): an empty registered set, no cleanups; nothing is running.
New ==
    /\ listing \in Listings
    /\ started = FALSE
    /\ ctxDone = FALSE
    /\ registeredWorkerIds = {}
    /\ c_cleanups = <<>>
    /\ pc = [p \in Procs |-> "none"]
    /\ dT = 0 /\ dW = 0 /\ scans = 0
    /\ checkRes = "none"
    /\ h = [p \in Procs |-> NoManifest]
    /\ ret = [p \in Procs |-> Nil]
    /\ ninst = 0
    /\ iworker = [i \in Inst |-> "none"]
    /\ released = [i \in Inst |-> 0]
    /\ mctx = [i \in Inst |-> FALSE]
    /\ timerFired = [i \in Inst |-> FALSE]
    /\ healthCheckErrors = [i \in Inst |-> 0]
    /\ wfsHashLast = [i \in Inst |-> <<>>]
    /\ actionsHashLast = [i \in Inst |-> <<>>]
    /\ cleanups = [i \in Inst |-> <<>>]
    /\ rng = [i \in Inst |-> <<>>]
    /\ sdpc = "idle"
    /\ sdSnap = <<>> /\ sdRng = <<>> /\ sdInner = <<>>
    /\ sdErr = FALSE
    /\ invoked = {}
    /\ active = [w \in Workers |-> FALSE]
    /\ deactCalls = [i \in Inst |-> 0]
    /\ activCalls = [i \in Inst |-> FALSE]
    /\ crash = "none"
    /\ passed = <<>>
    /\ scanErrs = {} /\ listFailed = {} /\ appended = {}
    /\ absentSeen = [w \in Workers |-> 0]
    /\ startFailed = [w \in Workers |-> FALSE]
    /\ changedTo = [i \in Inst |-> NoManifest]
    /\ prevErrs = {}

\* No call of hash() outside the controller's own.
NoHash == <<"none">>

Init ==
    /\ New
    /\ hashIn = <<>> /\ hashArg = <<>> /\ hashOut = NoHash

Alive == crash = "none"


(***************************************************************************)
(* check(): the position of its two nested loops.                          *)
(***************************************************************************)
WorkerAt(t, w) == listing[t][w]

\* The worker record a run() call of process p is about.
ww(p) == IF p = 0 THEN WorkerAt(dT, dW) ELSE iworker[p]

\* Where check() stands once worker w of tenant t is done: the next worker of
\* the tenant, the next tenant, or the end of the scan (return nil).
AfterWorker(t, w) ==
    IF w < Len(listing[t])
    THEN [pc |-> "guard", t |-> t, w |-> w + 1, res |-> "running"]
    ELSE IF t < Len(TenantList)
    THEN [pc |-> "listWorkers", t |-> t + 1, w |-> 0, res |-> "running"]
    ELSE [pc |-> "idle", t |-> 0, w |-> 0, res |-> "ok"]

\* A check() that gave up on the first run() error.
OnRunErrorAbort(t, w) == [pc |-> "idle", t |-> 0, w |-> 0, res |-> "errRun"]

\* check() on an error from run(): log and continue with the next worker.
OnRunError(t, w) == AfterWorker(t, w)

\* Start(): the discovery goroutine is spawned; the shutdown closure exists.
Start ==
    /\ Alive /\ ~started
    /\ started' = TRUE
    /\ pc' = [pc EXCEPT ![0] = "idle"]
    /\ UNCHANGED <<pure, listing, ctxDone, registeredWorkerIds, c_cleanups, disc, h, ret, insts,
                   shut, repo, crash, hist>>

\* select: the ticker fired; check() is entered.
DiscTick ==
    /\ Alive /\ pc[0] = "idle" /\ scans < MaxScans
    /\ scans' = scans + 1
    /\ pc' = [pc EXCEPT ![0] = "listTenants"]
    /\ checkRes' = "running"
    /\ passed' = <<>> /\ scanErrs' = {} /\ listFailed' = {} /\ appended' = {}
    /\ prevErrs' = scanErrs
    /\ UNCHANGED <<pure, ctl, dT, dW, h, ret, insts, shut, repo, crash,
                   absentSeen, startFailed, changedTo>>

\* select: ctx.Done() is readable; the discovery goroutine returns.
DiscCtxDone ==
    /\ Alive /\ pc[0] = "idle" /\ ctxDone
    /\ pc' = [pc EXCEPT ![0] = "exit"]
    /\ UNCHANGED <<pure, ctl, disc, h, ret, insts, shut, repo, crash, hist>>

\* ListTenants: an error ends check(); otherwise the tenant loop begins.
DiscListTenants ==
    /\ Alive /\ pc[0] = "listTenants"
    /\ \E ok \in BOOLEAN :
        IF ok
        THEN /\ pc' = [pc EXCEPT ![0] = "listWorkers"]
             /\ dT' = 1 /\ dW' = 0
             /\ checkRes' = checkRes
        ELSE /\ pc' = [pc EXCEPT ![0] = "idle"]
             /\ dT' = 0 /\ dW' = 0
             /\ checkRes' = "errTenants"
    /\ UNCHANGED <<pure, ctl, scans, h, ret, insts, shut, repo, crash, hist>>

\* GenerateTenantToken fails: check() panics.
DiscTokenPanic ==
    /\ Alive /\ pc[0] = "listWorkers"
    /\ crash' = "token"
    /\ UNCHANGED <<pure, ctl, pc, disc, h, ret, insts, shut, repo, hist>>

\* ListWebhookWorkers of the current tenant: an error is returned from
\* check(); otherwise the worker loop begins and run() is called.
DiscListWorkers ==
    /\ Alive /\ pc[0] = "listWorkers"
    /\ \E ok \in BOOLEAN :
        IF ok
        THEN LET n == AfterWorker(dT, 0) IN
             /\ pc' = [pc EXCEPT ![0] = n.pc]
             /\ dT' = n.t /\ dW' = n.w /\ checkRes' = n.res
             /\ passed' = IF n.pc = "guard"
                          THEN Append(passed, WorkerAt(n.t, n.w)) ELSE passed
             /\ listFailed' = listFailed
        ELSE /\ pc' = [pc EXCEPT ![0] = "idle"]
             /\ listFailed' = listFailed \cup {TenantList[dT]}
             /\ dT' = 0 /\ dW' = 0
             /\ checkRes' = "errWorkers"
             /\ passed' = passed
    /\ UNCHANGED <<pure, prevErrs, ctl, scans, h, ret, insts, shut, repo, crash,
                   scanErrs, appended, absentSeen, startFailed, changedTo>>

(***************************************************************************)
(* run(), executed by process p.                                           *)
(***************************************************************************)
\* run() returns (cl, err) to its caller.  check() logs an error and
\* continues, and goes on to append a non-nil release action; the monitor
\* logs an error and goes on to store the result in cleanups.
RunReturn(p, cl, err, pcBase) ==
    IF p = 0
    THEN LET n == IF err THEN OnRunError(dT, dW)
                  ELSE IF cl # Nil
                  THEN [pc |-> "append", t |-> dT, w |-> dW, res |-> checkRes]
                  ELSE AfterWorker(dT, dW) IN
         /\ pc' = [pcBase EXCEPT ![0] = n.pc]
         /\ ret' = [ret EXCEPT ![0] = cl]
         /\ dT' = n.t /\ dW' = n.w /\ checkRes' = n.res
         /\ passed' = IF n.pc = "guard"
                      THEN Append(passed, WorkerAt(n.t, n.w)) ELSE passed
         /\ scanErrs' = IF err THEN scanErrs \cup {ww(0)} ELSE scanErrs
    ELSE /\ pc' = [pcBase EXCEPT ![p] = "assign"]
         /\ ret' = [ret EXCEPT ![p] = cl]
         /\ UNCHANGED <<dT, dW, checkRes, passed, scanErrs>>

\* run() goes on to its next statement.
RunGoto(p, to) ==
    /\ pc' = [pc EXCEPT ![p] = to]
    /\ UNCHANGED <<ret, dT, dW, checkRes, passed, scanErrs>>

\* A guard that never finds the identity.
GuardPresentNever(w) == FALSE

\* _, ok := c.registeredWorkerIds[ww.ID]
GuardPresent(w) == w \in registeredWorkerIds

\* A run() that marked the identity before its probe had answered.
AfterFailedProbeMarked(w) == registeredWorkerIds \cup {w}

\* The registered set when the probe at the top of run() has failed: run()
\* returns the error before it reaches the map.
AfterFailedProbe(w) == registeredWorkerIds

\* run() up to the guard.  c.healthcheck(ww) gives an error, which run()
\* returns, or a manifest; then the map is read, and a registered identity
\* returns (nil, nil).  The HTTP exchange touches nothing shared, so the
\* step is taken at the moment of the map read.
RunGuard(p) ==
    /\ Alive /\ pc[p] = "guard"
    /\ \E m \in ManifestIds \cup {NoManifest} :
        IF m = NoManifest
        THEN /\ RunReturn(p, Nil, TRUE, pc)
             /\ registeredWorkerIds' = AfterFailedProbe(ww(p))
             /\ UNCHANGED <<h, absentSeen>>
        ELSE IF GuardPresent(ww(p))
        THEN /\ RunReturn(p, Nil, FALSE, pc)
             /\ UNCHANGED <<registeredWorkerIds, h, absentSeen>>
        ELSE /\ RunGoto(p, "insert")
             /\ h' = [h EXCEPT ![p] = m]
             /\ absentSeen' = [absentSeen EXCEPT ![ww(p)] = @ + 1]
             /\ registeredWorkerIds' = registeredWorkerIds
    /\ UNCHANGED <<pure, prevErrs, listing, started, ctxDone, c_cleanups, scans, insts,
                   shut, repo, crash,
                   listFailed, appended, startFailed, changedTo>>

\* The Go runtime's check of unsynchronised map access: a lookup by one
\* goroutine concurrent with an assignment by another ends the process
\* ("fatal error: concurrent map read and map write").  The check is best
\* effort: the accesses may also go through, as RunGuard and RunInsert.
MapRaceFatal ==
    /\ Alive
    /\ \E p, q \in Procs : p # q /\ pc[p] = "guard" /\ pc[q] = "insert"
    /\ crash' = "maprace"
    /\ UNCHANGED <<pure, ctl, pc, disc, h, ret, insts, shut, repo, hist>>

\* A run() that took the identity out again when the start failed.
AfterFailedStartRollback(w) == registeredWorkerIds \ {w}

\* The registered set when NewWorker or Start has failed: run() returns the
\* error and leaves the identity in the map.
AfterFailedStart(w) == registeredWorkerIds \cup {w}

\* c.registeredWorkerIds[ww.ID] = true, then webhook.NewWorker and w.Start:
\* on an error run() returns it.  Otherwise the transport runs, cleanups
\* holds its release function, the monitor goroutine is spawned with the
\* fingerprints of h as its baseline, and run() returns the aggregate
\* release closure.  Nothing another goroutine reads lies between the map
\* assignment and the return, so the step is taken at the map assignment.
RunInsert(p) ==
    /\ Alive /\ pc[p] = "insert"
    /\ \E ok \in BOOLEAN :
        IF ok
        THEN /\ ninst < MaxInst
             /\ registeredWorkerIds' = registeredWorkerIds \cup {ww(p)}
             /\ LET j == ninst + 1 IN
                /\ ninst' = j
                /\ iworker' = [iworker EXCEPT ![j] = ww(p)]
                /\ cleanups' = [cleanups EXCEPT ![j] = <<Rel(j)>>]
                /\ wfsHashLast' = [wfsHashLast EXCEPT ![j] = hash(Manifests[h[p]].Workflows)]
                /\ actionsHashLast' = [actionsHashLast EXCEPT ![j] = hash(Manifests[h[p]].Actions)]
                /\ RunReturn(p, Agg(j), FALSE, [pc EXCEPT ![j] = "select"])
             /\ startFailed' = startFailed
        ELSE /\ registeredWorkerIds' = AfterFailedStart(ww(p))
             /\ RunReturn(p, Nil, TRUE, pc)
             /\ startFailed' = [startFailed EXCEPT ![ww(p)] = TRUE]
             /\ UNCHANGED <<ninst, iworker, cleanups, wfsHashLast, actionsHashLast>>
    /\ h' = [h EXCEPT ![p] = NoManifest]
    /\ UNCHANGED <<pure, prevErrs, listing, started, ctxDone, c_cleanups, scans, released, mctx, timerFired,
                   healthCheckErrors, rng, shut, repo, crash, listFailed, appended,
                   absentSeen, changedTo>>

\* check(): c.cleanups = append(c.cleanups, cleanup)
DiscAppend ==
    /\ Alive /\ pc[0] = "append"
    /\ c_cleanups' = Append(c_cleanups, ret[0])
    /\ appended' = appended \cup {ww(0)}
    /\ LET n == AfterWorker(dT, dW) IN
         /\ pc' = [pc EXCEPT ![0] = n.pc]
         /\ dT' = n.t /\ dW' = n.w /\ checkRes' = n.res
         /\ passed' = IF n.pc = "guard"
                      THEN Append(passed, WorkerAt(n.t, n.w)) ELSE passed
    /\ ret' = [ret EXCEPT ![0] = Nil]
    /\ UNCHANGED <<pure, prevErrs, listing, started, ctxDone, registeredWorkerIds, scans, h, insts, shut, repo,
                   crash, scanErrs, listFailed, absentSeen, startFailed, changedTo>>

(***************************************************************************)
(* The monitor goroutine of instance i.                                    *)
(***************************************************************************)
\* healthCheckErrors > 3
HealthCheckThreshold == 3

\* UpdateWorker(isActive = v) on worker w.  The monitor only logs an error
\* of the call; the repository is taken to apply every update.
UpdateWorker(w, v) == active' = [active EXCEPT ![w] = v]

\* The monitor goroutine returns: its locals are gone and the deferred
\* timer.Stop() has run.
MonReturn(i, to) ==
    /\ pc' = [pc EXCEPT ![i] = to]
    /\ timerFired' = [timerFired EXCEPT ![i] = TRUE]
    /\ healthCheckErrors' = [healthCheckErrors EXCEPT ![i] = 0]
    /\ wfsHashLast' = [wfsHashLast EXCEPT ![i] = <<>>]
    /\ actionsHashLast' = [actionsHashLast EXCEPT ![i] = <<>>]

\* select: ctx.Done() is readable; the goroutine returns.
MonCtxDone(i) ==
    /\ Alive /\ pc[i] = "select" /\ mctx[i]
    /\ MonReturn(i, "stopped")
    /\ UNCHANGED <<pure, ctl, disc, h, ret, ninst, iworker, released, mctx, cleanups, rng,
                   shut, repo, crash, hist>>

\* A monitor that reported the worker active only after having reported it
\* inactive.
ReportsActiveIfInactive(i) == deactCalls[i] > 0

\* Whether the unchanged-manifest branch calls UpdateWorker(isActive=true):
\* the call stands outside the `if healthCheckErrors > 0`, which only logs.
ReportsActive(i) == TRUE

\* select: the timer delivers on timer.C (time.NewTimer fires once and the
\* loop never resets it), and the body of the case: the probe and what
\* follows from its result.  select may take this case with ctx.Done()
\* readable too.
MonProbe(i) ==
    /\ Alive /\ pc[i] = "select" /\ ~timerFired[i]
    /\ timerFired' = [timerFired EXCEPT ![i] = TRUE]
    /\ \E m \in ManifestIds \cup {NoManifest} :
        IF m = NoManifest
        THEN \* the probe failed
             /\ healthCheckErrors' = [healthCheckErrors EXCEPT ![i] = @ + 1]
             /\ IF healthCheckErrors'[i] > HealthCheckThreshold
                THEN /\ UpdateWorker(iworker[i], FALSE)
                     /\ deactCalls' = [deactCalls EXCEPT ![i] = @ + 1]
                ELSE UNCHANGED <<active, deactCalls>>
             /\ pc' = [pc EXCEPT ![i] = "select"]
             /\ UNCHANGED <<wfsHashLast, actionsHashLast, rng, activCalls, changedTo>>
        ELSE LET wfsHash == hash(Manifests[m].Workflows)
                 actionsHash == hash(Manifests[m].Actions) IN
             IF wfsHash # wfsHashLast[i] \/ actionsHash # actionsHashLast[i]
             THEN \* the manifest changed: run the cleanups, then restart
                  /\ rng' = [rng EXCEPT ![i] = cleanups[i]]
                  /\ changedTo' = [changedTo EXCEPT ![i] = m]
                  /\ pc' = [pc EXCEPT ![i] = "cleanup"]
                  /\ UNCHANGED <<healthCheckErrors, wfsHashLast, actionsHashLast, repo>>
             ELSE /\ wfsHashLast' = [wfsHashLast EXCEPT ![i] = wfsHash]
                  /\ actionsHashLast' = [actionsHashLast EXCEPT ![i] = actionsHash]
                  /\ IF ReportsActive(i)
                     THEN /\ UpdateWorker(iworker[i], TRUE)
                          /\ activCalls' = [activCalls EXCEPT ![i] = TRUE]
                     ELSE UNCHANGED <<active, activCalls>>
                  /\ healthCheckErrors' = [healthCheckErrors EXCEPT ![i] = 0]
                  /\ pc' = [pc EXCEPT ![i] = "select"]
                  /\ UNCHANGED <<rng, deactCalls, changedTo>>
    /\ UNCHANGED <<pure, prevErrs, ctl, disc, h, ret, ninst, iworker, released, mctx,
                   cleanups, shut, crash, passed, scanErrs, listFailed, appended,
                   absentSeen, startFailed>>

\* A restart that took the identity out of the registered set.
RestartForgets(w) == registeredWorkerIds \ {w}

\* The registered set over the change branch: neither the release calls nor
\* the call of c.run that follows them delete from the map.
RestartKeeps(w) == registeredWorkerIds

\* for _, cleanup := range cleanups: one call; an error is logged.  After
\* the last call the monitor calls c.run.
MonCleanup(i) ==
    /\ Alive /\ pc[i] = "cleanup"
    /\ registeredWorkerIds' = RestartKeeps(iworker[i])
    /\ LET f == Head(rng[i]) IN
       IF f = Nil
       THEN /\ crash' = "nilcall"
            /\ UNCHANGED <<pc, released, mctx, rng>>
       ELSE /\ crash' = crash
            /\ IF f[1] = "rel"
               THEN /\ released' = [released EXCEPT ![f[2]] = @ + 1]
                    /\ mctx' = mctx
                    /\ rng' = [rng EXCEPT ![i] = Tail(@)]
               ELSE /\ mctx' = [mctx EXCEPT ![f[2]] = TRUE]
                    /\ released' = released
                    /\ rng' = [rng EXCEPT ![i] = cleanups[f[2]] \o Tail(@)]
            /\ pc' = [pc EXCEPT ![i] = IF rng'[i] = <<>> THEN "guard" ELSE "cleanup"]
    /\ UNCHANGED <<pure, listing, started, ctxDone, c_cleanups, disc, h, ret, ninst,
                   iworker, timerFired, healthCheckErrors, wfsHashLast, actionsHashLast,
                   cleanups, shut, repo, hist>>

\* cleanups = []func() error{newCleanup}; return
MonAssign(i) ==
    /\ Alive /\ pc[i] = "assign"
    /\ cleanups' = [cleanups EXCEPT ![i] = <<ret[i]>>]
    /\ MonReturn(i, "restarted")
    /\ UNCHANGED <<pure, ctl, disc, h, ret, ninst, iworker, released, mctx, rng, shut, repo,
                   crash, hist>>

(***************************************************************************)
(* The shutdown closure Start() returns.                                   *)
(***************************************************************************)
\* cancel(), and the range loop takes the slice c.cleanups holds now.
Shutdown ==
    /\ Alive /\ started /\ sdpc = "idle"
    /\ ctxDone' = TRUE
    /\ listing' = listing
    /\ sdSnap' = c_cleanups
    /\ sdRng' = c_cleanups
    /\ sdpc' = IF c_cleanups = <<>> THEN "done" ELSE "loop"
    /\ UNCHANGED <<pure, started, registeredWorkerIds, c_cleanups, pc, disc, h, ret, insts,
                   sdInner, sdErr, invoked, repo, crash, hist>>

\* cleanup(): the aggregate closure of an instance is entered: cancel(), and
\* its range loop takes the slice cleanups holds now.
SdCall ==
    /\ Alive /\ sdpc = "loop"
    /\ LET j == Head(sdRng)[2] IN
       /\ mctx' = [mctx EXCEPT ![j] = TRUE]
       /\ invoked' = invoked \cup {j}
       /\ sdInner' = cleanups[j]
    /\ sdRng' = Tail(sdRng)
    /\ sdpc' = "inner"
    /\ UNCHANGED <<pure, ctl, pc, disc, h, ret, ninst, iworker, released, timerFired,
                   healthCheckErrors, wfsHashLast, actionsHashLast, cleanups, rng,
                   sdSnap, sdErr, repo, crash, hist>>

\* What the shutdown does on an error of a release action: it returns it.
OnCleanupError(rest) == "done"

\* Inside the aggregate closure: one call of a release action.  An error is
\* returned through the closure and through the shutdown.
SdRelease ==
    /\ Alive /\ sdpc = "inner"
    /\ LET f == Head(sdInner) IN
       IF f = Nil
       THEN /\ crash' = "nilcall"
            /\ UNCHANGED <<released, mctx, sdpc, sdInner, sdErr>>
       ELSE /\ crash' = crash
            /\ IF f[1] = "rel"
               THEN /\ released' = [released EXCEPT ![f[2]] = @ + 1]
                    /\ mctx' = mctx
                    /\ \E err \in BOOLEAN :
                        IF err
                        THEN /\ sdpc' = OnCleanupError(sdRng)
                             /\ sdErr' = TRUE
                             /\ sdInner' = <<>>
                        ELSE /\ sdInner' = Tail(sdInner)
                             /\ sdErr' = sdErr
                             /\ sdpc' = IF sdInner' # <<>> THEN "inner"
                                        ELSE IF sdRng # <<>> THEN "loop" ELSE "done"
               ELSE /\ mctx' = [mctx EXCEPT ![f[2]] = TRUE]
                    /\ released' = released
                    /\ sdInner' = cleanups[f[2]] \o Tail(sdInner)
                    /\ UNCHANGED <<sdpc, sdErr>>
    /\ UNCHANGED <<pure, ctl, pc, disc, h, ret, ninst, iworker, timerFired, healthCheckErrors,
                   wfsHashLast, actionsHashLast, cleanups, rng, sdSnap, sdRng, invoked,
                   repo, hist>>

Next ==
    \/ Start
    \/ DiscTick
    \/ DiscCtxDone
    \/ DiscListTenants
    \/ DiscTokenPanic
    \/ DiscListWorkers
    \/ DiscAppend
    \/ MapRaceFatal
    \/ Shutdown
    \/ SdCall
    \/ SdRelease
    \/ \E p \in Procs : RunGuard(p)
    \/ \E p \in Procs : RunInsert(p)
    \/ \E i \in Inst : MonCtxDone(i)
    \/ \E i \in Inst : MonProbe(i)
    \/ \E i \in Inst : MonCleanup(i)
    \/ \E i \in Inst : MonAssign(i)

Spec == Init /\ [][Next]_vars

(***************************************************************************)
(* hash() on its own: a slice of names is fixed at the start and hash() is *)
(* called on arrangements of it.  The controller stays as New() left it.   *)
(***************************************************************************)
MaxLen == 3

Names == { <<"a">>, <<"b">>, <<"c">>, <<"a", "b">> }

HashInputs == UNION { [1..n -> Names] : n \in 0..MaxLen }

\* The arrangements of slice s.
Arrangements(s) == { [k \in 1..Len(s) |-> s[f[k]]] : f \in Permutations(1..Len(s)) }

HashInit ==
    /\ New
    /\ hashIn \in HashInputs /\ hashArg = <<>> /\ hashOut = NoHash

HashCall ==
    /\ \E a \in Arrangements(hashIn) :
        /\ hashArg' = a
        /\ hashOut' = hash(a)
    /\ UNCHANGED <<hashIn, ctl, pc, disc, h, ret, insts, shut, repo, crash, hist>>

HashNext == HashCall

HashSpec == HashInit /\ [][HashNext]_vars

(***************************************************************************)
(* Scheduling: a goroutine that can take a step eventually takes one, the  *)
(* ticker keeps ticking, and a shutdown that has been called runs on.      *)
(* Whether the shutdown is called at all, and the faults, are left open.   *)
(***************************************************************************)
Fairness ==
    /\ WF_vars(DiscTick)
    /\ WF_vars(DiscCtxDone)
    /\ WF_vars(DiscListTenants)
    /\ WF_vars(DiscListWorkers)
    /\ WF_vars(DiscAppend)
    /\ WF_vars(SdCall)
    /\ WF_vars(SdRelease)
    /\ \A p \in Procs : WF_vars(RunGuard(p)) /\ WF_vars(RunInsert(p))
    /\ \A i \in Inst :
        /\ WF_vars(MonCtxDone(i)) /\ WF_vars(MonProbe(i))
        /\ WF_vars(MonCleanup(i)) /\ WF_vars(MonAssign(i))

FairSpec == Spec /\ Fairness

(***************************************************************************)
(* Properties.                                                             *)
(***************************************************************************)
Range(s) == {s[k] : k \in 1..Len(s)}

\* The instances (transport and monitor) started for worker w.
InstOf(w) == {i \in 1..ninst : iworker[i] = w}

\* The listing order of all workers: tenant by tenant.
AllInOrder == listing[1] \o listing[2]

IsPrefix(s, t) == Len(s) <= Len(t) /\ \A k \in 1..Len(s) : s[k] = t[k]

\* A check() call has returned.
ScanEnded == scans > 0 /\ pc[0] \in {"idle", "exit"}

\* The current check() called run() for w and got (nil, nil).
ReturnedNil(w) == w \in Range(passed) /\ w \notin scanErrs /\ w \notin appended

\* C1: however often run() is called with one worker identity, at most one
\* transport and one monitor are ever started for it and at most one release
\* action is returned for it; exactly one once a call has got through the
\* guard and the start has succeeded.
C1_IdempotentRegistration ==
    /\ \A w \in Workers :
        /\ Cardinality(InstOf(w)) <= 1
        /\ (w \in registeredWorkerIds /\ ~startFailed[w]) => Cardinality(InstOf(w)) = 1
        /\ Cardinality({k \in 1..Len(c_cleanups) : iworker[c_cleanups[k][2]] = w}) <= 1
    /\ \A i \in Inst : (pc[i] # "none") <=> (i <= ninst)

\* A second scan pass has called run() again for a started worker and got
\* (nil, nil); the worker still has its one instance.
C1_Witness ==
    \E w \in Workers :
        /\ scans = 2 /\ ScanEnded /\ checkRes = "ok"
        /\ ReturnedNil(w)
        /\ Cardinality(InstOf(w)) = 1
        /\ Len(c_cleanups) >= 1

\* C2: a monitor that has gone through the change-triggered restart has had
\* the old transport released exactly once, and a replacement instance of
\* the same worker exists whose monitor's baseline is the fingerprint of
\* the changed manifest.
C2_RestartReplaces ==
    \A i \in 1..ninst :
        pc[i] = "restarted" =>
            /\ released[i] = 1
            /\ \E j \in 1..ninst :
                /\ j # i /\ iworker[j] = iworker[i]
                /\ \/ pc[j] \in {"stopped", "restarted"}
                   \/ /\ actionsHashLast[j] = hash(Manifests[changedTo[i]].Actions)
                      /\ wfsHashLast[j] = hash(Manifests[changedTo[i]].Workflows)

\* C3: UpdateWorker(isActive=false) is not issued before the 4th consecutive
\* failure, and a monitor in a failure streak gets there: unless a probe
\* succeeds or the monitor is cancelled, the update is issued.
C3_DeactivationThreshold ==
    /\ [](\A i \in Inst : healthCheckErrors[i] <= HealthCheckThreshold => deactCalls[i] = 0)
    /\ \A i \in Inst :
        (healthCheckErrors[i] >= 1)
            ~> (deactCalls[i] = 1 \/ healthCheckErrors[i] = 0 \/ mctx[i] \/ ~Alive)

\* C4: when the shutdown has returned, the aggregate closure of every
\* element of the cleanup list it iterated has been invoked.
C4_ShutdownCompleteness ==
    (sdpc = "done" /\ Alive) => \A k \in 1..Len(sdSnap) : sdSnap[k][2] \in invoked

\* C5: when a check() whose ListTenants succeeded has returned, every worker
\* of every tenant whose own listing did not fail was passed to run().
C5_ScanIsolation ==
    (ScanEnded /\ checkRes # "errTenants") =>
        \A t \in 1..Len(TenantList) :
            TenantList[t] \notin listFailed => Range(listing[t]) \subseteq Range(passed)

\* C6: no transport's release function is called twice, and once the
\* shutdown has returned, every transport whose release action the shutdown
\* iterated over has been released.
C6_ReleaseExactlyOnce ==
    \A j \in 1..ninst :
        /\ released[j] <= 1
        /\ (sdpc = "done" /\ Alive /\ Agg(j) \in Range(sdSnap)) => released[j] = 1

\* The monitor of instance i has had a successful probe.
ProbeSucceeded(i) == activCalls[i] \/ changedTo[i] # NoManifest

\* C7: after a successful probe, changed manifest or not, the failure
\* counter is 0 and the worker, persisted as inactive before, is active.
C7_Recovery ==
    \A i \in 1..ninst :
        ProbeSucceeded(i) => (healthCheckErrors[i] = 0 /\ active[iworker[i]])

\* C8: for each identity at most one run() call finds it absent, and no
\* call is reading the registered set while another, with nothing ordering
\* the two, is about to write it.
C8_AtomicGuard ==
    /\ \A w \in Workers : absentSeen[w] <= 1
    /\ ~ \E p, q \in Procs : p # q /\ pc[p] = "guard" /\ pc[q] = "insert"

\* C9: once NewWorker or Start has failed for an identity, the identity is
\* registered, and no transport or monitor exists or is being started for
\* it.
C9_FailedStartConsumes ==
    \A w \in Workers :
        startFailed[w] =>
            /\ w \in registeredWorkerIds
            /\ InstOf(w) = {}
            /\ ~ \E p \in Procs : pc[p] = "insert" /\ ww(p) = w

\* A later scan pass has called run() for an identity whose start failed in
\* an earlier pass, and got (nil, nil).
C9_Witness ==
    \E w \in Workers :
        /\ startFailed[w]
        /\ scans = 2 /\ ScanEnded /\ checkRes = "ok"
        /\ ReturnedNil(w)

\* C10: check() passes the workers to run() in listing order; a check()
\* that ends before all were passed has had a listing fail, never a run()
\* error; and it records no release action for a worker whose run() failed.
C10_WorkerFailureIsolation ==
    /\ IsPrefix(passed, AllInOrder)
    /\ (ScanEnded /\ checkRes # "errTenants" /\ listFailed = {}) => passed = AllInOrder
    /\ scanErrs \cap appended = {}

\* run() failed for the first worker of a tenant, and the tenant's second
\* worker was run and its release action recorded.
C10_Witness ==
    /\ listing[1] = <<"w1", "w2">>
    /\ ScanEnded /\ checkRes = "ok"
    /\ scanErrs = {"w1"}
    /\ passed = <<"w1", "w2">>
    /\ appended = {"w2"}

\* A slice in ascending lexicographic order.
Sorted(t) == \A k \in 1..(Len(t) - 1) : ~StrLess(t[k + 1], t[k])

\* C11: hash() of any arrangement of a slice returns what hash() of the slice
\* returns, and that is the elements of the slice in ascending lexicographic
\* order joined by commas.
C11_HashOrderIndependent ==
    hashOut # NoHash =>
        /\ hashOut = hash(hashIn)
        /\ \E t \in Arrangements(hashIn) : Sorted(t) /\ hashOut = stringsJoin(t, <<",">>)

\* hash() was called on a rearranged, unsorted slice of three distinct names.
C11_Witness ==
    /\ hashIn = << <<"c">>, <<"a", "b">>, <<"a">> >>
    /\ hashArg = << <<"a", "b">>, <<"c">>, <<"a">> >>
    /\ hashOut = <<"a", ",", "a", "b", ",", "c">>

\* The monitor of instance i is in its loop and has not been cancelled.
Polling(i) == pc[i] = "select" /\ ~mctx[i]

\* C12: a monitor that waits in its select, not cancelled, has a tick still
\* to come: after a probe that failed or found the manifest unchanged,
\* another probe follows.
C12_ContinuousPolling ==
    \A i \in Inst : (Alive /\ Polling(i)) => ~timerFired[i]

\* C13: once the cancellation of a monitor has fired, the monitor takes no
\* step but its return: no probe, no update, no release call, no restart.
C13_CancellationTerminal ==
    [][\A i \in Inst :
          mctx[i] => \/ pc'[i] = pc[i] /\ timerFired'[i] = timerFired[i]
                     \/ pc'[i] = "stopped"]_vars

\* The transport of instance j is running.
Running(j) == j <= ninst /\ released[j] = 0

\* The monitor goroutine of instance j exists and has not returned.
Monitoring(j) == pc[j] \in {"select", "cleanup", "guard", "insert", "assign"}

TheInst(w) == CHOOSE j \in InstOf(w) : TRUE

\* C15: a run() call from check() whose first probe fails changes neither
\* the registered set nor the transports, monitors and release actions; and
\* a worker whose run() failed in the scan before and for which this scan
\* records a release action has been started as any other: registered, one
\* transport, one monitor, its aggregate closure in c.cleanups.
C15_FailedProbeNoEffect ==
    /\ [][(pc[0] = "guard" /\ scanErrs' # scanErrs) =>
            /\ registeredWorkerIds' = registeredWorkerIds
            /\ c_cleanups' = c_cleanups
            /\ ret'[0] = Nil
            /\ <<ninst, iworker, released, mctx, cleanups>>' =
                   <<ninst, iworker, released, mctx, cleanups>>
            /\ \A i \in Inst : pc'[i] = pc[i]]_vars
    /\ [](\A w \in prevErrs \cap appended :
            /\ w \in registeredWorkerIds
            /\ Cardinality(InstOf(w)) = 1
            /\ pc[TheInst(w)] # "none"
            /\ Agg(TheInst(w)) \in Range(c_cleanups))

\* The probe of a worker failed in the first scan; the second scan has
\* started it, and its monitor runs.
C15_Witness ==
    \E w \in Workers :
        /\ scans = 2 /\ ScanEnded /\ checkRes = "ok"
        /\ w \in prevErrs /\ w \in appended
        /\ InstOf(w) # {} /\ Running(TheInst(w)) /\ pc[TheInst(w)] = "select"

\* C16: the registered set is empty when the controller is created, and no
\* step takes an identity out of it.
C16_RegisteredSetGrows ==
    /\ registeredWorkerIds = {}
    /\ [][registeredWorkerIds \subseteq registeredWorkerIds']_vars

\* Both identities are registered, one with a failed start, the other with
\* a monitor that has gone through a restart and a shutdown that returned.
C16_Witness ==
    /\ registeredWorkerIds = Workers
    /\ \E w \in Workers : startFailed[w]
    /\ \E i \in 1..ninst : pc[i] = "restarted" /\ released[i] >= 1
    /\ sdpc = "done"

\* C17: a check() that has returned has returned nil unless ListTenants
\* failed.
C17_CheckResult ==
    ScanEnded => checkRes \in {"ok", "errTenants"}

\* C18 as stated: UpdateWorker(isActive=true) is issued only by a monitor
\* that has issued UpdateWorker(isActive=false) before.
C18_ActivateOnlyAfterInactive ==
    \A i \in Inst : activCalls[i] => deactCalls[i] > 0

\* The monitor of instance i has had a successful probe that found the
\* manifest unchanged, and is back in its select.
ProbedUnchanged(i) == pc[i] = "select" /\ timerFired[i] /\ healthCheckErrors[i] = 0

\* C18, amended: every successful probe that finds the manifest unchanged
\* issues UpdateWorker(isActive=true), whether or not the monitor had
\* reported the worker inactive, and the worker is then persisted as
\* active; a probe that fails or finds a change issues none.
C18_ActivateOnEveryUnchanged ==
    \A i \in Inst :
        /\ ProbedUnchanged(i) => activCalls[i] /\ active[iworker[i]]
        /\ activCalls[i] => changedTo[i] = NoManifest

\* A monitor that never reported its worker inactive has probed it with
\* success and no change, and has issued UpdateWorker(isActive=true).
C18_Witness ==
    \E i \in 1..ninst :
        /\ ProbedUnchanged(i)
        /\ deactCalls[i] = 0
        /\ activCalls[i] /\ active[iworker[i]]

\* C19: once the shutdown has returned with no release error, every
\* transport ever started has been released and every monitor cancelled.
C19_NoLeakAcrossShutdown ==
    (sdpc = "done" /\ ~sdErr /\ Alive) =>
        \A j \in 1..ninst : released[j] >= 1 /\ mctx[j]

\* C20: no release action that is called is nil.
C20_ReleaseActionsNonNil ==
    crash # "nilcall"

=============================================================================
